---- MODULE Spec2Model ----
(***************************************************************************)
(* Metrics Aggregation & Retention Engine (src/js/metrics.js, second        *)
(* MetricsEngine definition, lines 313-972) as a state machine.             *)
(*                                                                          *)
(* Time is counted in whole seconds since the Unix epoch: a JS millisecond  *)
(* timestamp is 1000 times the model value (ledger close times are whole    *)
(* seconds, so nothing is lost; the millisecond values do not fit TLC's     *)
(* integers).  A calendar-day string "YYYY-MM-DD" is represented by the     *)
(* number of the UTC day since 1970-01-01, which orders the same way.       *)
(***************************************************************************)
EXTENDS Integers, Sequences, FiniteSets, TLC

\* ---------------------------------------------------------------- bounds
\* Retained-ledger cap (5000 in the source), scaled down.
MAX_LEDGERS == 2
\* Save cadence "every 10 ledgers", scaled down.
SAVE_EVERY == 2
\* Interval-sample window (10 in the source), scaled down.
SAMPLE_CAP == 2
\* Rollup retention horizon in days (90 in the source), scaled down.
MAX_DAILY_DAYS == 2
\* Number of distinct ledger sequences the network can deliver.
NSeq == 2
\* Number of ledgers the transport delivers in one run.
MaxDeliveries == 3
MaxRequests == 4
MaxMessages == 2

\* ------------------------------------------------------------- constants
RIPPLE_EPOCH == 946684800
DAY_S == 86400000 \div 1000

\* ------------------------------------------------------------- JS values
Undef == [t |-> "undefined", v |-> 0]
Num(n) == [t |-> "num", v |-> n]
Str(ds) == [t |-> "str", v |-> ds]

RECURSIVE DigitsToInt(_)
DigitsToInt(ds) ==
    IF ds = <<>> THEN 0
    ELSE 10 * DigitsToInt(SubSeq(ds, 1, Len(ds) - 1)) + ds[Len(ds)]

RECURSIVE IntToDigits(_)
IntToDigits(n) ==
    IF n < 10 THEN <<n>> ELSE Append(IntToDigits(n \div 10), n % 10)

\* parseInt(x, 10) of a number or of a decimal string
parseInt(x) == IF x.t = "num" THEN x.v ELSE DigitsToInt(x.v)

\* JS truthiness of undefined / number / string
Truthy(x) ==
    CASE x.t = "undefined" -> FALSE
      [] x.t = "num" -> x.v # 0
      [] x.t = "str" -> x.v # <<>>

\* a || b
OrElse(a, b) == IF Truthy(a) THEN a ELSE b

\* n === x for a stored number n: no coercion, a string never equals a number
StrictEqNum(n, x) == x.t = "num" /\ x.v = n

\* calendar day of a timestamp: new Date(t).toISOString().slice(0, 10)
ToDay(t) == t \div DAY_S

EmptyMap == [d \in {} |-> 0]

RECURSIVE SumSeq(_)
SumSeq(s) == IF s = <<>> THEN 0 ELSE Head(s) + SumSeq(Tail(s))

SeqToSet(s) == {s[i] : i \in 1..Len(s)}

\* ---------------------------------------------- the ledger network (input)
\* Raw transactions as the transport delivers them: a bare hash string, a
\* flat object, or an object nested under tx / tx_json.
RawTx(wrap, type, account, fee, hash) ==
    [wrap |-> wrap, TransactionType |-> type, Account |-> account,
     Destination |-> "", Fee |-> fee, hash |-> hash]

TxA == RawTx("flat", "Payment", "rA", <<1, 0>>, "hA")
TxB == RawTx("tx", "Payment", "rB", <<1, 2>>, "hB")
TxAj == RawTx("tx_json", "", "rA", <<>>, "hJ")
TxH == RawTx("string", "", "", <<>>, "hH")

TxsOf(n) ==
    CASE n % 3 = 1 -> <<TxA, TxA>>
      [] n % 3 = 2 -> <<TxB>>
      [] OTHER -> <<TxH, TxAj>>

\* Ripple-epoch second at which the first day of the model starts.
RippleT0 == 9800 * DAY_S
\* Ledgers close 4 s apart; ledgers 1 and 2 close just before midnight of
\* the first day, the later ones on the second day.
CloseOf(n) == RippleT0 + DAY_S - 8 + 4 * (n - 1)

Day0 == ToDay(RippleT0 + RIPPLE_EPOCH)
NowStart == RippleT0 + RIPPLE_EPOCH + DAY_S + 60
\* Wall-clock readings of a session: the page is opened a minute after
\* midnight of the second day and stays open into the third day.
Clock == {NowStart, NowStart + DAY_S}

RawLedger(idx, ct, txs) ==
    [ledger_index |-> idx, seqNum |-> Undef, close_time |-> ct,
     transactions |-> txs]

\* Every raw ledger the transport can hand to processLedger: each sequence
\* as a number and as a numeric string (rippled reports ledger_index as a
\* string in `ledger` responses), a ledger identified by seqNum only, a
\* ledger without close_time, and a ledger without any sequence.
RawLedgers ==
    {RawLedger(Num(n), Num(CloseOf(n)), TxsOf(n)) : n \in 1..NSeq}
    \cup {RawLedger(Str(IntToDigits(n)), Num(CloseOf(n)), TxsOf(n)) : n \in 1..NSeq}
    \cup {[ledger_index |-> Undef, seqNum |-> Str(IntToDigits(NSeq + 1)),
           close_time |-> Undef, transactions |-> <<TxB>>]}
    \cup {RawLedger(Undef, Num(CloseOf(1)), <<TxA>>)}

\* ------------------------------------------------------------ engine state
VARIABLES
    ledgers,          \* [{seq, close_time, txn_count, transactions}], by seq
    recentTxnTimes,   \* [{interval, txnCount}], last SAMPLE_CAP intervals
    lastLedgerTime,   \* close time of the last accepted ledger, 0 = null
    dailyStats,       \* day -> {txCount, activeWallets, walletAddresses}
    firstSeen,        \* wallet -> day
    lsCache,          \* localStorage[CACHE_KEY]
    lsDaily,          \* localStorage[DAILY_STATS_KEY]
    fetchPending,     \* loadRemoteStats is awaiting its fetch
    now,              \* Date.now(), in seconds
    deliveries,       \* number of processLedger calls so far
    stats,            \* what the last getAllStats() call returned
    explorerMetrics,  \* explorer API figures (setExplorerMetrics)
    wsm,              \* the closure state of WebSocketManager
    dataFile          \* data/daily-stats.json as the collector leaves it

engineVars == <<ledgers, recentTxnTimes, lastLedgerTime, dailyStats, firstSeen,
                lsCache, lsDaily, fetchPending, now, deliveries, stats,
                explorerMetrics>>

vars == <<ledgers, recentTxnTimes, lastLedgerTime, dailyStats, firstSeen,
          lsCache, lsDaily, fetchPending, now, deliveries, stats,
          explorerMetrics, wsm, dataFile>>

EngineState ==
    [ledgers |-> ledgers, recentTxnTimes |-> recentTxnTimes,
     lastLedgerTime |-> lastLedgerTime, dailyStats |-> dailyStats,
     firstSeen |-> firstSeen, lsCache |-> lsCache, lsDaily |-> lsDaily]

\* ------------------------------------------------------- Ledger Normalizer
\* tx => { type, account, destination, fee, hash }, or { hash } for a bare
\* string (inner.Amount is carried through unchanged and is not modelled).
normalizeTx(tx) ==
    IF tx.wrap = "string" THEN [hash |-> tx.hash]
    ELSE [type |-> IF tx.TransactionType # "" THEN tx.TransactionType ELSE "Unknown",
          account |-> tx.Account,
          destination |-> tx.Destination,
          fee |-> parseInt(OrElse(Str(tx.Fee), Str(<<0>>))),
          hash |-> tx.hash]

\* tx.account of a stored transaction ("" when the field is absent or empty)
AccountOf(tx) == IF "account" \in DOMAIN tx THEN tx.account ELSE ""

\* ------------------------------------------------------------ Session Store
\* Insert x into a list sorted by seq, behind every entry with seq <= x.seq.
InsertBySeq(s, x) ==
    LET k == Cardinality({i \in 1..Len(s) : s[i].seq <= x.seq})
    IN SubSeq(s, 1, k) \o <<x>> \o SubSeq(s, k + 1, Len(s))

\* mutant of SortBySeq: the list is left in arrival order
SortBySeq_NoSort(s) == s

\* ledgers.sort((a, b) => a.seq - b.seq): a stable sort
RECURSIVE SortBySeq(_)
SortBySeq(s) ==
    IF s = <<>> THEN <<>>
    ELSE InsertBySeq(SortBySeq(SubSeq(s, 1, Len(s) - 1)), s[Len(s)])

\* s.slice(-n)
LastN(s, n) == IF Len(s) > n THEN SubSeq(s, Len(s) - n + 1, Len(s)) ELSE s

\* --------------------------------------------------------- Rollup Reconciler
RECURSIVE DayAccounts(_, _)
DayAccounts(ls, d) ==
    IF ls = <<>> THEN <<>>
    ELSE (IF ToDay(Head(ls).close_time) = d
          THEN [i \in 1..Len(Head(ls).transactions) |->
                    AccountOf(Head(ls).transactions[i])]
          ELSE <<>>) \o DayAccounts(Tail(ls), d)

\* insertion order of a Set: first occurrences, falsy ("") accounts skipped
RECURSIVE Distinct(_)
Distinct(s) ==
    IF s = <<>> THEN <<>>
    ELSE LET front == Distinct(SubSeq(s, 1, Len(s) - 1))
             x == s[Len(s)]
         IN IF x = "" \/ x \in SeqToSet(front) THEN front ELSE Append(front, x)

computeLiveDailyRollups(ls) ==
    [d \in {ToDay(ls[i].close_time) : i \in 1..Len(ls)} |->
        LET wallets == Distinct(DayAccounts(ls, d))
        IN [txCount |-> SumSeq([i \in 1..Len(ls) |->
                           IF ToDay(ls[i].close_time) = d
                           THEN ls[i].txn_count ELSE 0]),
            activeWallets |-> Len(wallets),
            walletAddresses |-> wallets]]

\* mutant of OverlayHigherTx: the live rollup always replaces the entry
OverlayHigherTx_Always(ds, src) ==
    [d \in DOMAIN ds \cup DOMAIN src |-> IF d \in DOMAIN src THEN src[d] ELSE ds[d]]

\* mutant of OverlayHigherTx: the live count is added to the recorded count
OverlayHigherTx_Accumulate(ds, src) ==
    [d \in DOMAIN ds \cup DOMAIN src |->
        IF d \notin DOMAIN src THEN ds[d]
        ELSE IF d \notin DOMAIN ds THEN src[d]
        ELSE [src[d] EXCEPT !.txCount = @ + ds[d].txCount]]

\* for (date, data) of src: if (!existing || data.txCount > existing.txCount)
\*     dailyStats[date] = data
OverlayHigherTx(ds, src) ==
    [d \in DOMAIN ds \cup DOMAIN src |->
        IF d \in DOMAIN src /\ (d \notin DOMAIN ds \/ src[d].txCount > ds[d].txCount)
        THEN src[d] ELSE ds[d]]

\* mutant of TrimDays: the slice is taken from the wrong end of the sorted
\* dates, so the most recent days are the ones deleted
TrimDays_DropNewest(ds) ==
    LET keep == {d \in DOMAIN ds :
                    Cardinality({e \in DOMAIN ds : e <= d}) <= MAX_DAILY_DAYS}
    IN [d \in keep |-> ds[d]]

\* delete the oldest days beyond the MAX_DAILY_DAYS most recent
TrimDays(ds) ==
    LET keep == {d \in DOMAIN ds :
                    Cardinality({e \in DOMAIN ds : e >= d}) <= MAX_DAILY_DAYS}
    IN [d \in keep |-> ds[d]]

\* mutant of saveDailyStats: the rollups are computed from the ledgers as they
\* were at the last cache write, not from the store as it is now
saveDailyStats_Stale(E, ok) ==
    LET merged == TrimDays(OverlayHigherTx(E.dailyStats,
                                           computeLiveDailyRollups(E.lsCache.ledgers)))
    IN [E EXCEPT !.dailyStats = merged,
                 !.lsDaily = IF ok THEN [present |-> TRUE, days |-> merged] ELSE @]

\* saveDailyStats(); ok = localStorage.setItem did not throw
saveDailyStats(E, ok) ==
    LET merged == TrimDays(OverlayHigherTx(E.dailyStats,
                                           computeLiveDailyRollups(E.ledgers)))
    IN [E EXCEPT !.dailyStats = merged,
                 !.lsDaily = IF ok THEN [present |-> TRUE, days |-> merged] ELSE @]


\* mutant of saveCache: the cache write is not guarded, its exception leaves
\* saveCache (and processLedger) before the daily rollups are saved
saveCache_NoCatch(E, okC, okD) ==
    IF okC
    THEN saveDailyStats(
             [E EXCEPT !.lsCache = [present |-> TRUE,
                                    ledgers |-> LastN(E.ledgers, MAX_LEDGERS)]],
             okD)
    ELSE E

\* saveCache(); okC / okD = the two setItem calls did not throw
saveCache(E, okC, okD) ==
    saveDailyStats(
        [E EXCEPT !.lsCache = IF okC
                              THEN [present |-> TRUE,
                                    ledgers |-> LastN(E.ledgers, MAX_LEDGERS)]
                              ELSE @],
        okD)

\* const seq = ledger.ledger_index || ledger.seqNum
rawSeq(L) == OrElse(L.ledger_index, L.seqNum)

\* processLedger goes past its two early returns: a sequence is present and
\* ledgers.find(l => l.seq === seq) finds nothing
accepts(E, L) ==
    /\ Truthy(rawSeq(L))
    /\ ~\E i \in 1..Len(E.ledgers) : StrictEqNum(E.ledgers[i].seq, rawSeq(L))

\* the object processLedger pushes for L at wall-clock time t
ledgerEntry(L, t) ==
    LET processed == [i \in 1..Len(L.transactions) |-> normalizeTx(L.transactions[i])]
    IN [seq |-> parseInt(rawSeq(L)),
        close_time |-> IF Truthy(L.close_time)
                       THEN L.close_time.v + RIPPLE_EPOCH
                       ELSE t,
        txn_count |-> Len(processed),
        transactions |-> processed]

\* mutant of rejected: the rejected call still runs the periodic save
rejected_Saves(E, okC, okD) == saveCache(E, okC, okD)

\* the two early returns of processLedger: nothing is touched
rejected(E, okC, okD) == E

\* mutant of pushSample: at the cap the new sample is the one dropped
pushSample_DropNewest(rs, x) ==
    IF Len(rs) + 1 > SAMPLE_CAP THEN rs ELSE Append(rs, x)

\* recentTxnTimes.push(x); if (recentTxnTimes.length > 10) recentTxnTimes.shift()
pushSample(rs, x) ==
    LET pushed == Append(rs, x)
    IN IF Len(pushed) > SAMPLE_CAP THEN Tail(pushed) ELSE pushed

\* processLedger(L) at wall-clock time t
processLedger(E, L, t, okC, okD) ==
    IF ~accepts(E, L) THEN rejected(E, okC, okD)
    ELSE
    LET entry == ledgerEntry(L, t)
        samples == IF E.lastLedgerTime # 0
                   THEN pushSample(E.recentTxnTimes,
                                   [interval |-> entry.close_time - E.lastLedgerTime,
                                    txnCount |-> entry.txn_count])
                   ELSE E.recentTxnTimes
        ledgerDay == ToDay(entry.close_time)
        accts == {AccountOf(entry.transactions[i]) : i \in 1..entry.txn_count} \ {""}
        seen == [w \in DOMAIN E.firstSeen \cup accts |->
                    IF w \in DOMAIN E.firstSeen THEN E.firstSeen[w] ELSE ledgerDay]
        kept == LastN(SortBySeq(Append(E.ledgers, entry)), MAX_LEDGERS)
        E1 == [E EXCEPT !.ledgers = kept, !.recentTxnTimes = samples,
                        !.lastLedgerTime = entry.close_time, !.firstSeen = seen]
    IN IF Len(kept) % SAVE_EVERY = 0 THEN saveCache(E1, okC, okD) ELSE E1

\* getAllTransactions(sinceMs) at wall-clock time t
RECURSIVE getAllTransactions(_, _, _)
getAllTransactions(ls, t, since) ==
    IF ls = <<>> THEN <<>>
    ELSE (IF Head(ls).close_time >= t - since THEN Head(ls).transactions ELSE <<>>)
         \o getAllTransactions(Tail(ls), t, since)

\* ------------------------------------------------ remote snapshot (input)
RemoteDay(tx, wallets) ==
    [txCount |-> tx, activeWallets |-> Len(wallets), walletAddresses |-> wallets,
     tps |-> 0]

\* data/daily-stats.json documents the collector may have published
Snapshots ==
    { [firstSeen |-> [w \in {"rA", "rC"} |-> IF w = "rA" THEN Day0 - 1 ELSE Day0],
       days |-> [d \in {Day0, Day0 + 1} |->
                    IF d = Day0 THEN RemoteDay(1, <<"rA", "rC">>)
                    ELSE RemoteDay(5, <<"rB">>)]],
      [firstSeen |-> EmptyMap,
       days |-> [d \in {Day0 - 1, Day0} |->
                    IF d = Day0 THEN RemoteDay(4, <<"rA">>)
                    ELSE RemoteDay(3, <<"rC">>)]],
      [firstSeen |-> EmptyMap, days |-> EmptyMap] }

\* the ways the fetch yields no usable document
FetchFailures == {"network error", "not ok", "no days"}

\* mutant of mergeFirstSeen: the remote date replaces the local one
mergeFirstSeen_Overwrite(fs, remoteFs) ==
    [w \in DOMAIN fs \cup DOMAIN remoteFs |->
        IF w \in DOMAIN remoteFs THEN remoteFs[w] ELSE fs[w]]

\* for (wallet, date) of remote.firstSeen: if (!firstSeen[wallet]) set it
mergeFirstSeen(fs, remoteFs) ==
    [w \in DOMAIN fs \cup DOMAIN remoteFs |->
        IF w \in DOMAIN fs THEN fs[w] ELSE remoteFs[w]]

\* mutant of overlayRemoteDays: no precedence of the local entry for today
overlayRemoteDays_NoTodayCheck(ds, days, today) ==
    [d \in DOMAIN ds \cup DOMAIN days |->
        IF /\ d \in DOMAIN days
           /\ (d \notin DOMAIN ds \/ days[d].txCount > ds[d].txCount)
        THEN days[d] ELSE ds[d]]

\* for (date, data) of remote.days:
\*     if (date === today && dailyStats[date]) continue;
\*     if (!existing || data.txCount > existing.txCount) dailyStats[date] = data
overlayRemoteDays(ds, days, today) ==
    [d \in DOMAIN ds \cup DOMAIN days |->
        IF /\ d \in DOMAIN days
           /\ ~(d = today /\ d \in DOMAIN ds)
           /\ (d \notin DOMAIN ds \/ days[d].txCount > ds[d].txCount)
        THEN days[d] ELSE ds[d]]

\* loadRemoteStats() from the point where the document has arrived, at time t
loadRemoteStats(E, remote, t, ok) ==
    saveDailyStats(
        [E EXCEPT !.firstSeen = mergeFirstSeen(@, remote.firstSeen),
                  !.dailyStats = overlayRemoteDays(@, remote.days, ToDay(t))],
        ok)

\* loadRemoteStats when the fetch rejects (catch), the response is not ok
\* (return) or the document has no days (return): nothing is assigned and
\* saveDailyStats is not reached
loadRemoteFailed(E, why) == E

\* a snapshot with no days and no firstSeen
NoRemoteData == [firstSeen |-> EmptyMap, days |-> EmptyMap]

\* ----------------------------------------------------------- Stats Queries
\* a quotient n / d of two integers, kept exact
Ratio(n, d) == [num |-> n, den |-> d]

\* explorerMetrics = null
NoExplorer == [present |-> FALSE, txn_sec |-> Undef, avg_fee |-> Undef]

\* what the explorer API can answer: both figures (txn_sec "7"; avg_fee
\* "0.000010" XRP, written as its six decimals), or neither
ExplorerData ==
    { [present |-> TRUE, txn_sec |-> Str(<<7>>), avg_fee |-> Str(<<0, 0, 0, 0, 1, 0>>)],
      [present |-> TRUE, txn_sec |-> Undef, avg_fee |-> Undef] }

RECURSIVE SumIntervals(_)
SumIntervals(rs) ==
    IF rs = <<>> THEN 0 ELSE Head(rs).interval + SumIntervals(Tail(rs))

RECURSIVE SumTxnCounts(_)
SumTxnCounts(rs) ==
    IF rs = <<>> THEN 0 ELSE Head(rs).txnCount + SumTxnCounts(Tail(rs))

\* mutant of getTPS: the guard on the number of samples is missing
getTPS_NoSampleGuard(em, rs) ==
    IF em.present /\ Truthy(em.txn_sec) THEN Ratio(parseInt(em.txn_sec), 1)
    ELSE IF SumIntervals(rs) <= 0 THEN Ratio(0, 1)
    ELSE Ratio(SumTxnCounts(rs), SumIntervals(rs))

\* getTPS()
getTPS(em, rs) ==
    IF em.present /\ Truthy(em.txn_sec) THEN Ratio(parseInt(em.txn_sec), 1)
    ELSE IF Len(rs) < 2 THEN Ratio(0, 1)
    ELSE LET totalTxns == SumTxnCounts(rs)
             totalTime == SumIntervals(rs)
         IN IF totalTime <= 0 THEN Ratio(0, 1) ELSE Ratio(totalTxns, totalTime)

\* getLedgerInterval(): the explorer's ledger_interval when it has one, else
\* the mean of the sampled intervals (0 without samples), kept exact
getLedgerInterval(em, rs) ==
    IF em.present /\ "ledger_interval" \in DOMAIN em /\ Truthy(em.ledger_interval)
    THEN Ratio(parseInt(em.ledger_interval), 1)
    ELSE IF Len(rs) = 0 THEN Ratio(0, 1)
    ELSE Ratio(SumIntervals(rs), Len(rs))

\* tx.fee || 0 of a stored transaction (a hash-only transaction has no fee)
FeeOf(tx) == IF "fee" \in DOMAIN tx THEN tx.fee ELSE 0

RECURSIVE SumFees(_)
SumFees(txns) == IF txns = <<>> THEN 0 ELSE FeeOf(Head(txns)) + SumFees(Tail(txns))

\* getAvgFee() at wall-clock time t; parseFloat(avg_fee) * 1000000 reads the
\* six decimals as a number of drops
getAvgFee(em, ls, t) ==
    IF em.present /\ Truthy(em.avg_fee) THEN Ratio(parseInt(em.avg_fee), 1)
    ELSE LET txns == getAllTransactions(ls, t, DAY_S)
         IN IF Len(txns) = 0 THEN Ratio(0, 1) ELSE Ratio(SumFees(txns), Len(txns))

\* new Date(t).getUTCHours()
HOUR_S == 3600
HOURS == 24
UTCHour(t) == (t % DAY_S) \div HOUR_S

\* hourCounts after the ledgers.forEach of getPeakHour
hourCounts(ls, t) ==
    [h \in 0..(HOURS - 1) |->
        SumSeq([i \in 1..Len(ls) |->
                   IF ls[i].close_time >= t - DAY_S /\ UTCHour(ls[i].close_time) = h
                   THEN ls[i].txn_count ELSE 0])]

\* hourCounts.forEach((c, h) => { if (c > maxCount) { maxCount = c; maxHour = h } })
RECURSIVE ScanHours(_, _, _, _)
ScanHours(hc, h, maxHour, maxCount) ==
    IF h >= HOURS THEN [maxHour |-> maxHour, maxCount |-> maxCount]
    ELSE IF hc[h] > maxCount THEN ScanHours(hc, h + 1, h, hc[h])
    ELSE ScanHours(hc, h + 1, maxHour, maxCount)

\* String(h).padStart(2, '0')
PadStart2(ds) == IF Len(ds) < 2 THEN <<0>> \o ds ELSE ds

\* getPeakHour() at wall-clock time t: "HH:00 UTC" (its two digits) or "--"
getPeakHour(ls, t) ==
    LET m == ScanHours(hourCounts(ls, t), 0, 0, 0)
    IN IF m.maxCount > 0
       THEN [text |-> "HH:00 UTC", hh |-> PadStart2(IntToDigits(m.maxHour))]
       ELSE [text |-> "--", hh |-> <<>>]

\* the wallets that sent a transaction of a ledger closing on day d
liveBucket(ls, d) == SeqToSet(DayAccounts(ls, d)) \ {""}

liveDays(ls) == {ToDay(ls[i].close_time) : i \in 1..Len(ls)}

\* the elements of a set of days in ascending order: Object.keys(..).sort()
RECURSIVE SortedDays(_)
SortedDays(S) ==
    IF S = {} THEN <<>>
    ELSE LET m == CHOOSE x \in S : \A y \in S : x <= y
         IN <<m>> \o SortedDays(S \ {m})

\* dayCounts of getDailyActiveWalletsMulti: recorded activeWallets, raised to
\* the number of wallets of the live ledgers of the day
dayCounts(ds, ls) ==
    [d \in DOMAIN ds \cup liveDays(ls) |->
        LET recorded == IF d \in DOMAIN ds THEN ds[d].activeWallets ELSE 0
            live == IF d \in liveDays(ls) THEN Cardinality(liveBucket(ls, d)) ELSE 0
        IN IF recorded >= live THEN recorded ELSE live]

\* rolling windows of the multi-window series, in entries of sortedDays, and
\* the number of entries returned
ROLL7 == 7
ROLL30 == 30
MULTI_DAYS == 30

\* sum of dayCounts over the up to n entries of sortedDays that end at i
RollingSum(counts, sorted, i, n) ==
    LET from == IF i - (n - 1) > 1 THEN i - (n - 1) ELSE 1
    IN SumSeq([k \in 1..(i - from + 1) |-> counts[sorted[from + k - 1]]])

\* getDailyActiveWalletsMulti()
getDailyActiveWalletsMulti(ds, ls) ==
    LET counts == dayCounts(ds, ls)
        sorted == SortedDays(DOMAIN counts)
        result == [i \in 1..Len(sorted) |->
                      LET day1 == counts[sorted[i]]
                          day7sum == RollingSum(counts, sorted, i, ROLL7)
                          day7 == IF day1 >= day7sum THEN day1 ELSE day7sum
                          day30sum == RollingSum(counts, sorted, i, ROLL30)
                      IN [date |-> sorted[i], day1 |-> day1, day7 |-> day7,
                          day30 |-> IF day7 >= day30sum THEN day7 ELSE day30sum]]
    IN LastN(result, MULTI_DAYS)

\* dayWalletSets of getCohortRetention: recorded walletAddresses (days with
\* none are left out) united with the live bucket of the day
dayWalletSets(ds, ls) ==
    LET recordedDays == {d \in DOMAIN ds : Len(ds[d].walletAddresses) > 0}
    IN [d \in recordedDays \cup liveDays(ls) |->
           (IF d \in recordedDays THEN SeqToSet(ds[d].walletAddresses) ELSE {})
           \cup (IF d \in liveDays(ls) THEN liveBucket(ls, d) ELSE {})]

\* cohorts: first-seen day -> the wallets first seen on it
cohorts(fs) ==
    [c \in {fs[w] : w \in DOMAIN fs} |-> {w \in DOMAIN fs : fs[w] = c}]

\* retention horizons in days (days3Ms, days7Ms, days30Ms)
days3 == 3
days7 == 7
days30 == 30
Horizons == {days3, days7, days30}

\* mutant of pastGate: a cohort exactly three days old is still skipped
pastGate_Strict(age) == age > days3

\* if (todayMs - cohortMs < days3Ms) continue;
pastGate(age) == ~(age < days3)

\* mutant of maturedFor: every cohort is pushed, whatever its age
maturedFor_All(fs, today, H) == DOMAIN cohorts(fs)

\* the cohort days whose percentage is pushed to the list of horizon H
maturedFor(fs, today, H) ==
    {c \in DOMAIN cohorts(fs) :
        /\ Cardinality(cohorts(fs)[c]) # 0
        /\ pastGate(today - c)
        /\ (H = days3 \/ today - c >= H)}


\* mutant of returned: the scan starts at the cohort day itself
returned_FromCohortDay(sets, cohort, c, H) ==
    Cardinality({w \in cohort :
                    \E i \in 0..H : c + i \in DOMAIN sets /\ w \in sets[c + i]})

\* returnedH: wallets of cohort c found in a day set of days c+1 .. c+H
returned(sets, cohort, c, H) ==
    Cardinality({w \in cohort :
                    \E i \in 1..H : c + i \in DOMAIN sets /\ w \in sets[c + i]})

\* sum of the quotients q[c], c in S, over the product of the denominators
RECURSIVE SumRatios(_, _)
SumRatios(q, S) ==
    IF S = {} THEN Ratio(0, 1)
    ELSE LET c == CHOOSE x \in S : TRUE
             rest == SumRatios(q, S \ {c})
         IN Ratio(q[c].num * rest.den + rest.num * q[c].den, q[c].den * rest.den)

\* x.toFixed(1) of a non-negative quotient, as a number of tenths
toFixed1(x) == (20 * x.num + x.den) \div (2 * x.den)

\* one horizon of getCohortRetention: the text ("--", or the tenths followed
\* by '%') and the numeric value, in tenths of a percent
retentionFor(ds, ls, fs, t, H) ==
    LET sets == dayWalletSets(ds, ls)
        co == cohorts(fs)
        mature == maturedFor(fs, ToDay(t), H)
        pct == [c \in mature |->
                   Ratio(returned(sets, co[c], c, H) * 100, Cardinality(co[c]))]
        total == SumRatios(pct, mature)
    IN IF Cardinality(mature) > 0
       THEN LET avg == Ratio(total.num, total.den * Cardinality(mature))
            IN [text |-> "%", numeric |-> toFixed1(avg)]
       ELSE [text |-> "--", numeric |-> 0]

\* getCohortRetention() at wall-clock time t
getCohortRetention(ds, ls, fs, t) ==
    [H \in Horizons |-> retentionFor(ds, ls, fs, t, H)]

\* getAllStats() at wall-clock time t (the figures modelled here)
getAllStats(E, em, t) ==
    [called |-> TRUE,
     tps |-> getTPS(em, E.recentTxnTimes),
     avgFee |-> getAvgFee(em, E.ledgers, t),
     peakHour |-> getPeakHour(E.ledgers, t),
     dawHistoryMulti |-> getDailyActiveWalletsMulti(E.dailyStats, E.ledgers),
     retention |-> getCohortRetention(E.dailyStats, E.ledgers, E.firstSeen, t)]

\* ---------------------------------------------------- WebSocket manager
\* reconnectDelay passes through 15187.5 and 22781.25 ms: delays are kept as
\* whole numbers of quarter milliseconds
Ms(n) == n * 4

\* let reconnectDelay = 2000 / reconnectDelay = 2000 in ws.onopen
BASE_DELAY == 2000
\* the cap in Math.min(reconnectDelay * 1.5, 30000)
MAX_DELAY == 30000

\* const ENDPOINTS
ENDPOINTS ==
    <<"wss://ws.devnet.postfiat.org",
      "wss://ws.devnet.postfiat.org:6006",
      "wss://ws.devnet.postfiat.org:2559">>

\* the manager as constructed: no socket, no timer, no request issued.
\* `currentEndpoint` indexes ENDPOINTS from 0 as the code does, `sockets` is
\* the number of sockets created and not yet CLOSED, `timers` is
\* the number of reconnect timeouts set and neither fired nor cleared,
\* `reconnectTimer` tells whether the timeout whose handle the variable holds
\* is one of them, `timerDelay` is the delay the reconnect timer was last armed with, `timeouts` the requests whose
\* 15 s timer has not fired yet, `settled[id]` the resolve/reject calls made
\* on the promise of request id, `delivered` the requests whose response was
\* handed to the ledger callback, `received` the messages handled.
WsInit ==
    [ws |-> "null", sockets |-> 0, currentEndpoint |-> 0,
     reconnectTimer |-> FALSE, timers |-> 0, timerDelay |-> 0,
     reconnectDelay |-> Ms(BASE_DELAY), isConnected |-> FALSE,
     requestId |-> 0, pendingRequests |-> {}, timeouts |-> {},
     settled |-> [i \in 1..MaxRequests |-> <<>>],
     delivered |-> {}, received |-> 0]

\* mutant of nextDelay: the growth is not capped
nextDelay_NoCap(d) == (d * 3) \div 2

\* Math.min(reconnectDelay * 1.5, 30000)
nextDelay(d) == IF d * 3 <= 2 * Ms(MAX_DELAY) THEN (d * 3) \div 2 ELSE Ms(MAX_DELAY)

\* mutant of clearTimeout: the timeout set before stays pending
clearTimeout_Skipped(W) == W

\* if (reconnectTimer) clearTimeout(reconnectTimer): a handle whose timeout
\* has fired clears nothing
clearTimeout(W) ==
    IF W.reconnectTimer
    THEN [W EXCEPT !.reconnectTimer = FALSE, !.timers = @ - 1]
    ELSE W

\* scheduleReconnect(): clearTimeout, then setTimeout(..., reconnectDelay)
scheduleReconnect(W) ==
    [clearTimeout(W) EXCEPT !.reconnectTimer = TRUE, !.timers = @ + 1,
                            !.timerDelay = W.reconnectDelay]

\* tryNextEndpoint()
tryNextEndpoint(W) ==
    scheduleReconnect(
        [W EXCEPT !.currentEndpoint = (@ + 1) % Len(ENDPOINTS)])

\* mutant of socketInUse: connect() does not look at the socket it holds
socketInUse_Unchecked(W) == FALSE

\* ws && (ws.readyState === WebSocket.OPEN ||
\*        ws.readyState === WebSocket.CONNECTING)
socketInUse(W) == W.ws \in {"open", "connecting"}

\* connect(): return if the socket is OPEN or CONNECTING; else
\* new WebSocket(ENDPOINTS[currentEndpoint]), and tryNextEndpoint() when the
\* constructor throws (`threw`)
connect(W, threw) ==
    IF socketInUse(W) THEN W
    ELSE IF threw THEN tryNextEndpoint(W)
    ELSE [W EXCEPT !.ws = "connecting", !.sockets = @ + 1]

\* the callback of a reconnect timeout. Timeouts other than the one the
\* handle names exist only when one was left uncleared.
reconnectTimerFires(W, threw) ==
    connect([W EXCEPT !.timers = @ - 1,
                      !.reconnectTimer = (W.timers > 1),
                      !.reconnectDelay = nextDelay(@)], threw)

\* sendRequest(data): rejected at once when the socket is not open; else the
\* next id is taken, the promise is registered and the 15 s timer is started
sendRequest(W) ==
    IF W.ws # "open" THEN W
    ELSE LET id == W.requestId + 1
         IN [W EXCEPT !.requestId = id,
                      !.pendingRequests = @ \cup {id},
                      !.timeouts = @ \cup {id}]

\* ws.onopen: reset the delay, subscribe, request server_info and the latest
\* validated ledger
onopen(W) ==
    sendRequest(sendRequest(
        [W EXCEPT !.ws = "open", !.isConnected = TRUE,
                  !.reconnectDelay = Ms(BASE_DELAY)]))

\* the socket the manager holds reaches readyState CLOSED
closed(W) == [W EXCEPT !.ws = "closed", !.sockets = @ - 1]

\* ws.onclose
onclose(W) == scheduleReconnect([W EXCEPT !.isConnected = FALSE])

\* ws.onerror: ws.close() on the current socket (no effect once it is closed)
onerror(W) ==
    [W EXCEPT !.ws = IF @ \in {"open", "connecting"} THEN "closing" ELSE @]

\* What an open socket can receive: the response to any request issued so
\* far, with or without a result, and a ledgerClosed stream message (no id).
IncomingMessages(W) ==
    {[id |-> i, type |-> "response", result |-> b] :
        i \in 1..W.requestId, b \in BOOLEAN}
    \cup {[id |-> 0, type |-> "ledgerClosed", result |-> FALSE]}

\* ws.onmessage, with the .then handlers of the promise it resolves
onmessage(W, m) ==
    LET W0 == [W EXCEPT !.received = @ + 1]
    IN IF m.id # 0 /\ m.id \in W.pendingRequests
       THEN [W0 EXCEPT !.settled[m.id] = Append(@, "resolved"),
                       !.pendingRequests = @ \ {m.id},
                       !.delivered = IF m.result THEN @ \cup {m.id} ELSE @]
       ELSE IF m.type = "ledgerClosed" THEN sendRequest(W0)
       ELSE W0

\* mutant of timeoutRejects: the timer rejects without looking at the table
timeoutRejects_Always(W, id) == TRUE

\* if (pendingRequests[id]) in the timer callback of sendRequest
timeoutRejects(W, id) == id \in W.pendingRequests

\* the 15 s timer of request id fires
requestTimeout(W, id) ==
    LET W0 == [W EXCEPT !.timeouts = @ \ {id}]
    IN IF timeoutRejects(W, id)
       THEN [W0 EXCEPT !.settled[id] = Append(@, "rejected"),
                       !.pendingRequests = @ \ {id}]
       ELSE W0

\* ------------------------------------------------- the snapshot collector
\* DATA_FILE before the first run: fs.existsSync(DATA_FILE) is false
NoFile ==
    [present |-> FALSE, lastUpdated |-> 0, firstSeen |-> EmptyMap,
     days |-> EmptyMap]

\* loadExisting(): the parsed document, or an empty one when there is no file
loadExisting(file) ==
    IF file.present
    THEN [lastUpdated |-> file.lastUpdated, firstSeen |-> file.firstSeen,
          days |-> file.days]
    ELSE [lastUpdated |-> 0, firstSeen |-> EmptyMap, days |-> EmptyMap]

\* inner.Account of the transactions of a `ledger` response, where
\* inner = tx.tx || tx.tx_json || tx ("" when there is none)
ResponseAccounts(L) ==
    [i \in 1..Len(L.transactions) |-> L.transactions[i].Account]

\* the filter of collectFromWebSocket: a ledger is skipped when it has a
\* close_time that is not of today
CountedToday(L, today) ==
    ~Truthy(L.close_time) \/ ToDay(L.close_time.v + RIPPLE_EPOCH) = today

RECURSIVE CollectedAccounts(_, _)
CollectedAccounts(resps, today) ==
    IF resps = <<>> THEN <<>>
    ELSE (IF CountedToday(Head(resps), today)
          THEN ResponseAccounts(Head(resps)) ELSE <<>>)
         \o CollectedAccounts(Tail(resps), today)

\* collectFromWebSocket(), given the `ledger` responses it received: the
\* transactions and the distinct accounts of the ledgers closed today
collectFromWebSocket(resps, today) ==
    LET accounts == Distinct(CollectedAccounts(resps, today))
    IN [txCount |-> SumSeq([i \in 1..Len(resps) |->
                       IF CountedToday(resps[i], today)
                       THEN Len(resps[i].transactions) ELSE 0]),
        activeWallets |-> Len(accounts),
        walletAddresses |-> accounts]

\* what main() puts in place of a collection that threw: no walletAddresses
WsCollectionFailed == [txCount |-> 0, activeWallets |-> 0]

\* wsData.walletAddresses || []
WalletsOf(wsData) ==
    IF "walletAddresses" \in DOMAIN wsData THEN wsData.walletAddresses ELSE <<>>

\* main(), after the three collectors have settled: merge into the existing
\* document, replace today's record, trim, write
main(file, wsData, explorerData, vhsData, t) ==
    LET existing == loadExisting(file)
        today == ToDay(t)
        wallets == WalletsOf(wsData)
        seen == [w \in DOMAIN existing.firstSeen \cup SeqToSet(wallets) |->
                    IF w \in DOMAIN existing.firstSeen
                    THEN existing.firstSeen[w] ELSE today]
        record == [txCount |-> wsData.txCount,
                   activeWallets |-> wsData.activeWallets,
                   walletAddresses |-> wallets,
                   tps |-> explorerData.tps,
                   avgFee |-> explorerData.avgFee,
                   nodeCount |-> vhsData.nodeCount,
                   validatorCount |-> vhsData.validatorCount]
        days == [d \in DOMAIN existing.days \cup {today} |->
                    IF d = today THEN record ELSE existing.days[d]]
    IN [present |-> TRUE, lastUpdated |-> t, firstSeen |-> seen,
        days |-> TrimDays(days)]

\* ------------------------------------------------------------------ actions
\* nothing has been rendered yet
NoStats == [called |-> FALSE]

Init ==
    /\ ledgers = <<>>
    /\ recentTxnTimes = <<>>
    /\ lastLedgerTime = 0
    /\ dailyStats = EmptyMap
    /\ firstSeen = EmptyMap
    /\ lsCache = [present |-> FALSE, ledgers |-> <<>>]
    /\ lsDaily = [present |-> FALSE, days |-> EmptyMap]
    /\ fetchPending = FALSE
    /\ now = NowStart
    /\ deliveries = 0
    /\ stats = NoStats
    /\ explorerMetrics = NoExplorer
    /\ wsm = WsInit
    /\ dataFile = NoFile

SetEngine(E) ==
    /\ ledgers' = E.ledgers
    /\ recentTxnTimes' = E.recentTxnTimes
    /\ lastLedgerTime' = E.lastLedgerTime
    /\ dailyStats' = E.dailyStats
    /\ firstSeen' = E.firstSeen
    /\ lsCache' = E.lsCache
    /\ lsDaily' = E.lsDaily

\* the transport hands a ledger to MetricsEngine.processLedger
ProcessLedger ==
    \E L \in RawLedgers :
        /\ deliveries < MaxDeliveries
        /\ deliveries' = deliveries + 1
        /\ SetEngine(processLedger(EngineState, L, now, TRUE, TRUE))
        /\ UNCHANGED <<fetchPending, now, stats, explorerMetrics>>
        /\ UNCHANGED <<wsm, dataFile>>

\* MetricsEngine.saveCache() called through the public interface
SaveCache ==
    /\ SetEngine(saveCache(EngineState, TRUE, TRUE))
    /\ UNCHANGED <<fetchPending, now, deliveries, stats,
                   explorerMetrics>>
    /\ UNCHANGED <<wsm, dataFile>>

\* MetricsEngine.loadRemoteStats() starts and suspends on its fetch
LoadRemoteBegin ==
    /\ ~fetchPending
    /\ fetchPending' = TRUE
    /\ UNCHANGED <<ledgers, recentTxnTimes, lastLedgerTime, dailyStats,
                   firstSeen, lsCache, lsDaily, now, deliveries, stats,
                   explorerMetrics>>
    /\ UNCHANGED <<wsm, dataFile>>

\* the fetch delivers a document with days: merge, then saveDailyStats
LoadRemoteMerge ==
    \E remote \in Snapshots :
        /\ fetchPending
        /\ fetchPending' = FALSE
        /\ SetEngine(loadRemoteStats(EngineState, remote, now, TRUE))
        /\ UNCHANGED <<now, deliveries, stats, explorerMetrics>>
        /\ UNCHANGED <<wsm, dataFile>>

\* the fetch fails, is not ok, or the document has no days: early return
LoadRemoteFail ==
    \E why \in FetchFailures :
        /\ fetchPending
        /\ fetchPending' = FALSE
        /\ SetEngine(loadRemoteFailed(EngineState, why))
        /\ UNCHANGED <<now, deliveries, stats, explorerMetrics>>
        /\ UNCHANGED <<wsm, dataFile>>

\* a day passes on the wall clock
Tick ==
    /\ now + DAY_S \in Clock
    /\ now' = now + DAY_S
    /\ UNCHANGED <<ledgers, recentTxnTimes, lastLedgerTime, dailyStats,
                   firstSeen, lsCache, lsDaily, fetchPending, deliveries, stats,
                   explorerMetrics>>
    /\ UNCHANGED <<wsm, dataFile>>

Next ==
    \/ ProcessLedger
    \/ SaveCache
    \/ LoadRemoteBegin
    \/ LoadRemoteMerge
    \/ LoadRemoteFail
    \/ Tick

Spec == Init /\ [][Next]_vars

\* ------------------------------------------- a session that renders stats
\* The same engine under inputs that spread over the hours of two days and
\* over first-seen days up to a month back, with the dashboard reading the
\* figures through getAllStats.

\* 15:00:00 UTC on the second day of the model
StatsNow == (Day0 + 1) * DAY_S + 15 * HOUR_S
StatsClock == {StatsNow, StatsNow + DAY_S}
StatsDay == ToDay(StatsNow)

\* close_time (Ripple epoch) of a ledger closing on day d at h:m:sec UTC
CloseAt(d, h, m, sec) == d * DAY_S + h * HOUR_S + m * 60 + sec - RIPPLE_EPOCH

TxF(account, fee) == RawTx("flat", "Payment", account, fee, "hF")

\* ledgers of the stats session: 10 closes exactly 24 h before StatsNow, 11
\* and 12 in hour 02 and 13 in hour 14 of the day, and 14 is stamped 4 s
\* ahead of the browser clock
StatsLedgers ==
    { RawLedger(Num(10), Num(CloseAt(StatsDay - 1, 15, 0, 0)), <<TxA>>),
      RawLedger(Num(11), Num(CloseAt(StatsDay, 2, 10, 0)),
                <<TxF("rA", <<1, 0>>), TxF("rB", <<2, 0>>), TxF("rA", <<3, 0>>)>>),
      RawLedger(Num(12), Num(CloseAt(StatsDay, 2, 50, 0)), <<TxH, TxB>>),
      RawLedger(Num(13), Num(CloseAt(StatsDay, 14, 0, 0)), <<TxA, TxAj, TxB>>),
      RawLedger(Num(14), Num(CloseAt(StatsDay, 15, 0, 4)), <<TxB>>) }

\* data/daily-stats.json documents of the stats session
StatsSnapshots ==
    { [firstSeen |-> [w \in {"rA", "rB", "rC", "rD"} |->
                         CASE w = "rA" -> StatsDay - 3
                           [] w = "rB" -> StatsDay - 6
                           [] w = "rC" -> StatsDay
                           [] OTHER -> StatsDay - 2],
       days |-> [d \in {StatsDay - 2, StatsDay - 1} |->
                    IF d = StatsDay - 2 THEN RemoteDay(2, <<"rA", "rD">>)
                    ELSE RemoteDay(1, <<"rB">>)]],
      [firstSeen |-> [w \in {"rA", "rB", "rC"} |->
                         CASE w = "rA" -> StatsDay - 30
                           [] w = "rB" -> StatsDay - 31
                           [] OTHER -> StatsDay - 29],
       days |-> [d \in {StatsDay - 1, StatsDay} |->
                    IF d = StatsDay - 1 THEN RemoteDay(3, <<"rA">>)
                    ELSE RemoteDay(2, <<"rB", "rC">>)]] }

\* App.init has called MetricsEngine.init() on empty storage and awaits
\* loadRemoteStats(); the ledger callback is registered after that await
StatsInit ==
    /\ ledgers = <<>>
    /\ recentTxnTimes = <<>>
    /\ lastLedgerTime = 0
    /\ dailyStats = EmptyMap
    /\ firstSeen = EmptyMap
    /\ lsCache = [present |-> FALSE, ledgers |-> <<>>]
    /\ lsDaily = [present |-> FALSE, days |-> EmptyMap]
    /\ fetchPending = TRUE
    /\ now = StatsNow
    /\ deliveries = 0
    /\ stats = NoStats
    /\ explorerMetrics = NoExplorer
    /\ wsm = WsInit
    /\ dataFile = NoFile

\* the fetch delivers a document with days: merge, then saveDailyStats
StatsLoadRemoteMerge ==
    \E remote \in StatsSnapshots :
        /\ fetchPending
        /\ fetchPending' = FALSE
        /\ SetEngine(loadRemoteStats(EngineState, remote, now, TRUE))
        /\ UNCHANGED <<now, deliveries, stats, explorerMetrics>>
        /\ UNCHANGED <<wsm, dataFile>>

\* the ledger callback of App.init: processLedger(data), then getAllStats()
\* for updateDashboard
OnLedger ==
    \E L \in StatsLedgers :
        /\ ~fetchPending
        /\ deliveries < MaxDeliveries
        /\ deliveries' = deliveries + 1
        /\ LET E == processLedger(EngineState, L, now, TRUE, TRUE)
           IN /\ SetEngine(E)
              /\ stats' = getAllStats(E, explorerMetrics, now)
        /\ UNCHANGED <<fetchPending, now, explorerMetrics>>
        /\ UNCHANGED <<wsm, dataFile>>

\* a day passes on the wall clock
StatsTick ==
    /\ now + DAY_S \in StatsClock
    /\ now' = now + DAY_S
    /\ UNCHANGED <<ledgers, recentTxnTimes, lastLedgerTime, dailyStats,
                   firstSeen, lsCache, lsDaily, fetchPending, deliveries, stats,
                   explorerMetrics>>
    /\ UNCHANGED <<wsm, dataFile>>

\* fetchVHS: if (data.txn_sec) MetricsEngine.setExplorerMetrics(data)
SetExplorerMetrics ==
    \E data \in ExplorerData :
        /\ Truthy(data.txn_sec)
        /\ explorerMetrics' = data
        /\ UNCHANGED <<ledgers, recentTxnTimes, lastLedgerTime, dailyStats,
                       firstSeen, lsCache, lsDaily, fetchPending, now,
                       deliveries, stats>>
        /\ UNCHANGED <<wsm, dataFile>>

\* hasData()
hasData(ls, em) == Len(ls) > 0 \/ em.present

\* the periodic refresh of App.init: getAllStats() when hasData()
Refresh ==
    /\ ~fetchPending
    /\ hasData(ledgers, explorerMetrics)
    /\ stats' = getAllStats(EngineState, explorerMetrics, now)
    /\ UNCHANGED <<ledgers, recentTxnTimes, lastLedgerTime, dailyStats,
                   firstSeen, lsCache, lsDaily, fetchPending, now, deliveries,
                   explorerMetrics>>
    /\ UNCHANGED <<wsm, dataFile>>

StatsNext ==
    \/ StatsLoadRemoteMerge
    \/ LoadRemoteFail
    \/ OnLedger
    \/ StatsTick
    \/ SetExplorerMetrics
    \/ Refresh

StatsSpec == StatsInit /\ [][StatsNext]_vars

\* ------------------------------------------- a rollup table with missing days
\* daily-stats.json documents whose days are not consecutive: the collector
\* did not run, or failed, on the days in between
GapSnapshots ==
    { [firstSeen |-> EmptyMap,
       days |-> [d \in {StatsDay - 40, StatsDay - 9} |->
                    IF d = StatsDay - 40 THEN RemoteDay(2, <<"rA", "rB">>)
                    ELSE RemoteDay(1, <<"rC">>)]],
      [firstSeen |-> EmptyMap,
       days |-> [d \in {StatsDay - 5, StatsDay - 1} |->
                    IF d = StatsDay - 5 THEN RemoteDay(3, <<"rA">>)
                    ELSE RemoteDay(1, <<"rB">>)]] }

\* the awaited fetch of App.init delivers one of these documents
GapLoadRemoteMerge ==
    \E remote \in GapSnapshots :
        /\ fetchPending
        /\ fetchPending' = FALSE
        /\ SetEngine(loadRemoteStats(EngineState, remote, now, TRUE))
        /\ UNCHANGED <<now, deliveries, stats, explorerMetrics>>
        /\ UNCHANGED <<wsm, dataFile>>

GapNext ==
    \/ GapLoadRemoteMerge
    \/ LoadRemoteFail
    \/ OnLedger
    \/ StatsTick
    \/ SetExplorerMetrics
    \/ Refresh

GapSpec == StatsInit /\ [][GapNext]_vars

\* --------------------------------------------- sessions across page loads
\* a fresh module instance after init(): loadCache() and loadDailyStats()
\* restore ledgers and dailyStats from storage; every other field is as
\* declared (firstSeen = {}, recentTxnTimes = [], lastLedgerTime = null)
init(E) ==
    [ledgers |-> IF E.lsCache.present THEN E.lsCache.ledgers ELSE <<>>,
     recentTxnTimes |-> <<>>,
     lastLedgerTime |-> 0,
     dailyStats |-> IF E.lsDaily.present THEN E.lsDaily.days ELSE EmptyMap,
     firstSeen |-> EmptyMap,
     lsCache |-> E.lsCache,
     lsDaily |-> E.lsDaily]

\* the page is loaded again: the script starts over on the same storage
Reload ==
    /\ SetEngine(init(EngineState))
    /\ fetchPending' = FALSE
    /\ stats' = NoStats
    /\ explorerMetrics' = NoExplorer
    /\ wsm' = WsInit
    /\ UNCHANGED dataFile
    /\ UNCHANGED <<now, deliveries>>

ReloadNext == Next \/ Reload

ReloadSpec == Init /\ [][ReloadNext]_vars

\* ------------------------------------- a long ledger stream, storage failing
\* Ledgers delivered by the stream: the first leaves no sample, the next
\* SAMPLE_CAP fill the window, one more makes it overflow.
StreamLen == SAMPLE_CAP + 2

\* What the stream can hand over as its k-th delivery: ledger k with its
\* transactions, ledger k closed empty, or ledger k - 1 once more.
StreamLedgers(k) ==
    {RawLedger(Num(k), Num(CloseOf(k)), TxsOf(k)),
     RawLedger(Num(k), Num(CloseOf(k)), <<>>)}
    \cup (IF k > 1 THEN {RawLedger(Num(k - 1), Num(CloseOf(k - 1)), TxsOf(k - 1))}
          ELSE {})

\* processLedger for the next delivery; each localStorage.setItem of the
\* periodic save may throw (quota exceeded, storage disabled)
StreamLedger ==
    \E L \in StreamLedgers(deliveries + 1) : \E okC \in BOOLEAN, okD \in BOOLEAN :
        /\ deliveries < StreamLen
        /\ deliveries' = deliveries + 1
        /\ SetEngine(processLedger(EngineState, L, now, okC, okD))
        /\ UNCHANGED <<fetchPending, now, stats, explorerMetrics>>
        /\ UNCHANGED <<wsm, dataFile>>

StreamSpec == Init /\ [][StreamLedger]_vars

\* ------------------------------------------- the WebSocket manager's events
\* App.init calls WebSocketManager.connect() once; the constructor accepts
\* the URLs of ENDPOINTS
Connect ==
    /\ wsm.ws = "null"
    /\ wsm' = connect(wsm, FALSE)
    /\ UNCHANGED <<engineVars, dataFile>>

\* the connection is established: ws.onopen
SocketOpens ==
    /\ wsm.ws = "connecting"
    /\ wsm.requestId + 2 <= MaxRequests
    /\ wsm' = onopen(wsm)
    /\ UNCHANGED <<engineVars, dataFile>>

\* the connection fails or is lost: the socket is CLOSED, then the error and
\* the close events are fired
SocketFails ==
    /\ wsm.ws \in {"connecting", "open"}
    /\ wsm' = onclose(onerror(closed(wsm)))
    /\ UNCHANGED <<engineVars, dataFile>>

\* the server closes an open connection cleanly: close event only
SocketCloses ==
    /\ wsm.ws = "open"
    /\ wsm' = onclose(closed(wsm))
    /\ UNCHANGED <<engineVars, dataFile>>

\* a pending reconnect timeout fires; `threws` tells whether the constructor
\* may throw
ReconnectTimerFires(threws) ==
    \E threw \in threws :
        /\ wsm.timers > 0
        /\ wsm' = reconnectTimerFires(wsm, threw)
        /\ UNCHANGED <<engineVars, dataFile>>

ReconnectTimer == ReconnectTimerFires({FALSE})

Message ==
    \E m \in IncomingMessages(wsm) :
        /\ wsm.ws = "open"
        /\ wsm.received < MaxMessages
        /\ m.type = "ledgerClosed" => wsm.requestId < MaxRequests
        /\ wsm' = onmessage(wsm, m)
        /\ UNCHANGED <<engineVars, dataFile>>

RequestTimeout(id) ==
    /\ id \in wsm.timeouts
    /\ wsm' = requestTimeout(wsm, id)
    /\ UNCHANGED <<engineVars, dataFile>>

WsNext ==
    \/ Connect
    \/ SocketOpens
    \/ SocketFails
    \/ SocketCloses
    \/ ReconnectTimer
    \/ Message
    \/ \E id \in 1..MaxRequests : RequestTimeout(id)

WsSpec == Init /\ [][WsNext]_vars

\* every timer that was started fires
WsLiveSpec ==
    WsSpec /\ \A id \in 1..MaxRequests : WF_vars(RequestTimeout(id))

\* ------------------------------------------------ the connection life cycle
\* connect() is exported: it may be called at any time, and in an environment
\* that refuses the URL the constructor throws
ConnectCall ==
    \E threw \in BOOLEAN :
        /\ wsm' = connect(wsm, threw)
        /\ UNCHANGED <<engineVars, dataFile>>

ReconnectTimerOrThrow == ReconnectTimerFires(BOOLEAN)

ConnNext ==
    \/ ConnectCall
    \/ SocketOpens
    \/ SocketFails
    \/ SocketCloses
    \/ ReconnectTimerOrThrow

\* a timeout that stays pending fires
ConnSpec == Init /\ [][ConnNext]_vars /\ WF_vars(ReconnectTimerOrThrow)

\* ---------------------------------------------------- the collector's runs
\* The `ledger` responses a run can receive: any of three ledgers closed a
\* few seconds before the run, after a ledger closed two minutes before it
\* (the day before, for a run a minute after midnight) or without it.
CollectorLedger(n, t) == RawLedger(Num(n), Num(t - RIPPLE_EPOCH - 4 * n), TxsOf(n))

EarlierLedger(t) == RawLedger(Num(0), Num(t - RIPPLE_EPOCH - 120), <<TxB>>)

RECURSIVE ResponsesOf(_, _)
ResponsesOf(S, t) ==
    IF S = {} THEN <<>>
    ELSE LET n == CHOOSE x \in S : \A y \in S : x <= y
         IN <<CollectorLedger(n, t)>> \o ResponsesOf(S \ {n}, t)

CollectorResponses(t) ==
    {ResponsesOf(S, t) : S \in SUBSET (1..3)}
    \cup {<<EarlierLedger(t)>> \o ResponsesOf(S, t) : S \in SUBSET (1..3)}

\* what collectExplorerMetrics() returns: the figures, or the defaults of its
\* catch
ExplorerOutcomes ==
    {[tps |-> 0, avgFee |-> "0.00001000"], [tps |-> 1, avgFee |-> "0.00001200"]}

\* what collectVHSData() returns
VhsOutcomes ==
    {[nodeCount |-> 0, validatorCount |-> 0], [nodeCount |-> 5, validatorCount |-> 3]}

\* a run of the script whose WebSocket collection succeeds
CollectorRun ==
    \E resps \in CollectorResponses(now), ex \in ExplorerOutcomes, vhs \in VhsOutcomes :
        /\ dataFile' = main(dataFile, collectFromWebSocket(resps, ToDay(now)),
                            ex, vhs, now)
        /\ UNCHANGED <<engineVars, wsm>>

\* a run whose WebSocket collection throws (connect error or timeout, no
\* server_info result)
CollectorRunWsFails ==
    \E ex \in ExplorerOutcomes, vhs \in VhsOutcomes :
        /\ dataFile' = main(dataFile, WsCollectionFailed, ex, vhs, now)
        /\ UNCHANGED <<engineVars, wsm>>

CollectorNext ==
    \/ CollectorRun
    \/ CollectorRunWsFails
    \/ Tick

CollectorSpec == Init /\ [][CollectorNext]_vars

\* ------------------------------------------------------------------- claims
Today == ToDay(now)

Max(a, b) == IF a >= b THEN a ELSE b

\* the engine fields an ingestion is compared on
IngestView(E) == <<E.ledgers, E.recentTxnTimes, E.lastLedgerTime, E.firstSeen>>

StoredSeqs == {ledgers[i].seq : i \in 1..Len(ledgers)}

\* C1: ingesting a raw ledger that carries a sequence identifier (as a number
\* or as a numeric string) twice leaves ledgers, recentTxnTimes,
\* lastLedgerTime and firstSeen exactly as ingesting it once does.
C1_IdempotentIngestion ==
    \A L \in RawLedgers :
        Truthy(rawSeq(L)) =>
            LET once == processLedger(EngineState, L, now, TRUE, TRUE)
                twice == processLedger(once, L, now, TRUE, TRUE)
            IN IngestView(twice) = IngestView(once)

\* C2: the stored ledgers have strictly increasing seq in storage order, so
\* no two stored ledgers share a sequence.
C2_StrictlyIncreasingSeq ==
    \A i, j \in 1..Len(ledgers) : i < j => ledgers[i].seq < ledgers[j].seq

\* C3: after every processLedger call at most MAX_LEDGERS ledgers are stored,
\* and every ledger evicted by the call has a sequence lower than that of
\* every ledger that remains stored.
C3_BoundedStoreEvictsLowest ==
    [][\A L \in RawLedgers :
          (/\ deliveries' = deliveries + 1
           /\ accepts(EngineState, L)
           /\ EngineState' = processLedger(EngineState, L, now, TRUE, TRUE))
          => LET sorted == SortBySeq(Append(ledgers, ledgerEntry(L, now)))
                 evicted == Len(sorted) - Len(ledgers')
             IN /\ Len(ledgers') <= MAX_LEDGERS
                /\ \A i \in 1..evicted, j \in 1..Len(ledgers') :
                       sorted[i].seq < ledgers'[j].seq]_vars

\* C4: two ledgers with distinct sequences and explicit close times, neither
\* of them stored yet, give the same stored ledgers list, the same
\* getAllTransactions result and the same per-day live rollups in either
\* order of arrival (any permutation is a product of such swaps).
C4_ArrivalOrderIndependent ==
    \A L1, L2 \in RawLedgers :
        (/\ Truthy(rawSeq(L1)) /\ Truthy(rawSeq(L2))
         /\ Truthy(L1.close_time) /\ Truthy(L2.close_time)
         /\ parseInt(rawSeq(L1)) < parseInt(rawSeq(L2))
         /\ parseInt(rawSeq(L1)) \notin StoredSeqs
         /\ parseInt(rawSeq(L2)) \notin StoredSeqs)
        => LET a == processLedger(processLedger(EngineState, L1, now, TRUE, TRUE),
                                  L2, now, TRUE, TRUE).ledgers
               b == processLedger(processLedger(EngineState, L2, now, TRUE, TRUE),
                                  L1, now, TRUE, TRUE).ledgers
           IN /\ a = b
              /\ getAllTransactions(a, now, DAY_S) = getAllTransactions(b, now, DAY_S)
              /\ computeLiveDailyRollups(a) = computeLiveDailyRollups(b)

\* C4 witness: the ledger accepted last is stored in front of a ledger with a
\* higher sequence, i.e. arrival order differed from sequence order.
C4_Witness ==
    /\ Len(ledgers) >= 2
    /\ lastLedgerTime = ledgers[1].close_time
    /\ ledgers[1].seq < ledgers[2].seq
    /\ Len(recentTxnTimes) >= 1
    /\ recentTxnTimes[Len(recentTxnTimes)].interval < 0

LiveRollups == computeLiveDailyRollups(ledgers)

\* C5: across every merge performed by saveDailyStats and loadRemoteStats,
\* the txCount of a day that stays in dailyStats never decreases.
C5_TxCountMonotonic ==
    [][\A d \in DOMAIN dailyStats \cap DOMAIN dailyStats' :
          dailyStats'[d].txCount >= dailyStats[d].txCount]_vars

\* C5 witness: just after a save, a day keeps a txCount above what the live
\* ledgers now stored for it add up to (the smaller source did not win).
C5_Witness ==
    /\ lsDaily.present /\ lsDaily.days = dailyStats
    /\ \E d \in DOMAIN dailyStats \cap DOMAIN LiveRollups :
           dailyStats[d].txCount > LiveRollups[d].txCount

\* C6: across every merge performed by saveDailyStats and loadRemoteStats,
\* the activeWallets of a day that stays in dailyStats never decreases, and
\* after a live overlay (saveCache) it equals the maximum of the value
\* recorded before and the freshly computed live value.
C6_ActiveWalletsMonotonic ==
    [][/\ \A d \in DOMAIN dailyStats \cap DOMAIN dailyStats' :
              dailyStats'[d].activeWallets >= dailyStats[d].activeWallets
       /\ (EngineState' = saveCache(EngineState, TRUE, TRUE)) =>
              \A d \in DOMAIN LiveRollups \cap DOMAIN dailyStats' :
                  dailyStats'[d].activeWallets =
                      Max(IF d \in DOMAIN dailyStats
                          THEN dailyStats[d].activeWallets ELSE 0,
                          LiveRollups[d].activeWallets)]_vars

C8_LiveWinsToday ==
    [][\A remote \in Snapshots :
          (/\ fetchPending /\ ~fetchPending'
           /\ EngineState' = loadRemoteStats(EngineState, remote, now, TRUE)
           /\ Today \in DOMAIN LiveRollups)
          => /\ Today \in DOMAIN dailyStats'
             /\ Today \in DOMAIN remote.days =>
                    dailyStats'[Today] # remote.days[Today]]_vars

\* C9: merging the same remote snapshot through loadRemoteStats, or the same
\* Session Store contents through saveDailyStats, a second time with nothing
\* in between leaves dailyStats exactly as after the first merge.
C9_MergeIdempotent ==
    /\ \A remote \in Snapshots :
           LET once == loadRemoteStats(EngineState, remote, now, TRUE)
           IN loadRemoteStats(once, remote, now, TRUE).dailyStats = once.dailyStats
    /\ LET once == saveDailyStats(EngineState, TRUE)
       IN saveDailyStats(once, TRUE).dailyStats = once.dailyStats

\* C9 witness: a remote snapshot has been merged over live data and the
\* table was saved; it holds a remote day and a locally derived day.
C9_Witness ==
    /\ lsDaily.present /\ lsDaily.days = dailyStats
    /\ "rC" \in DOMAIN firstSeen
    /\ \E d \in DOMAIN dailyStats : "tps" \in DOMAIN dailyStats[d]
    /\ \E d \in DOMAIN dailyStats \cap DOMAIN LiveRollups :
           dailyStats[d] = LiveRollups[d]

\* C10: for every day other than today, applying the remote overlay before
\* the live overlay and applying the live overlay before the remote overlay
\* give the same txCount and the same activeWallets, also when the two
\* sources report equal txCount.
C10_MergeOrderIndependent ==
    \A remote \in Snapshots :
        LET remoteFirst == loadRemoteStats(EngineState, remote, now, TRUE).dailyStats
            liveFirst == loadRemoteStats(saveDailyStats(EngineState, TRUE),
                                         remote, now, TRUE).dailyStats
        IN \A d \in (DOMAIN remoteFirst \cap DOMAIN liveFirst) \ {Today} :
               /\ remoteFirst[d].txCount = liveFirst[d].txCount
               /\ remoteFirst[d].activeWallets = liveFirst[d].activeWallets

\* days of the table before trimming (recorded days and live days) that the
\* table after trimming no longer has are earlier than every day it has
TrimmedAreOldest(before, live, after) ==
    \A d \in (DOMAIN before \cup DOMAIN live) \ DOMAIN after :
        \A e \in DOMAIN after : d < e

\* C11: after every saveDailyStats (from processLedger's periodic save, from
\* saveCache and from loadRemoteStats) the in-memory rollup table and the
\* document written to storage hold at most MAX_DAILY_DAYS days, and every
\* day removed by trimming is earlier than every day retained.
C11_RetentionHorizon ==
    [][/\ Cardinality(DOMAIN dailyStats') <= MAX_DAILY_DAYS
       /\ Cardinality(DOMAIN lsDaily'.days) <= MAX_DAILY_DAYS
       /\ \A L \in RawLedgers :
              (/\ deliveries' = deliveries + 1
               /\ accepts(EngineState, L)
               /\ EngineState' = processLedger(EngineState, L, now, TRUE, TRUE)
               /\ Len(ledgers') % SAVE_EVERY = 0)
              => TrimmedAreOldest(dailyStats, computeLiveDailyRollups(ledgers'),
                                  dailyStats')
       /\ (/\ deliveries' = deliveries /\ fetchPending' = fetchPending
           /\ EngineState' = saveCache(EngineState, TRUE, TRUE))
              => TrimmedAreOldest(dailyStats, LiveRollups, dailyStats')
       /\ \A remote \in Snapshots :
              (/\ fetchPending /\ ~fetchPending'
               /\ EngineState' = loadRemoteStats(EngineState, remote, now, TRUE))
              => TrimmedAreOldest(
                     overlayRemoteDays(dailyStats, remote.days, Today),
                     LiveRollups, dailyStats')]_vars

\* C11 witness: the saved table is full and a day on which a stored ledger
\* closed, earlier than every day of the table, has been trimmed from it.
C11_Witness ==
    /\ lsDaily.present /\ lsDaily.days = dailyStats
    /\ Cardinality(DOMAIN dailyStats) = MAX_DAILY_DAYS
    /\ \E d \in DOMAIN LiveRollups :
           d \notin DOMAIN dailyStats /\ \A e \in DOMAIN dailyStats : d < e

\* the wallets that send a transaction of a stored ledger
StoredAccounts ==
    UNION {{AccountOf(ledgers[i].transactions[j]) :
                j \in 1..Len(ledgers[i].transactions)} : i \in 1..Len(ledgers)}
    \ {""}

\* C12: once firstSeen[w] is set, no later step (processLedger, saveCache,
\* loadRemoteStats) changes or removes it, also not when the ledger that
\* introduced w is evicted from the store.
C12_FirstSeenAppendOnly ==
    [][\A w \in DOMAIN firstSeen :
          w \in DOMAIN firstSeen' /\ firstSeen'[w] = firstSeen[w]]_vars

\* C12 witness: a wallet recorded from a ledger is still in firstSeen with
\* the ledger's day after that ledger was evicted from the full store, and a
\* remote snapshot that reports an earlier day for it has been merged.
C12_Witness ==
    /\ Len(ledgers) = MAX_LEDGERS
    /\ "rC" \in DOMAIN firstSeen
    /\ "rA" \in DOMAIN firstSeen /\ firstSeen["rA"] = Day0
    /\ "rA" \notin StoredAccounts

\* the earlier of the day recorded for w (if any) and a newly observed day
EarlierDay(fs, w, d) == IF w \in DOMAIN fs /\ fs[w] < d THEN fs[w] ELSE d

\* C13: firstSeen[w] is the earliest calendar day on which w was observed in
\* any ingested ledger or in the remote snapshot's firstSeen map: every
\* accepted ledger and every merged snapshot leaves, for each wallet it
\* reports, the earlier of the recorded day and the newly reported day.
C13_EarliestWins ==
    [][/\ \A L \in RawLedgers :
              (/\ deliveries' = deliveries + 1
               /\ accepts(EngineState, L)
               /\ EngineState' = processLedger(EngineState, L, now, TRUE, TRUE))
              => LET entry == ledgerEntry(L, now)
                 IN \A i \in 1..entry.txn_count :
                        LET w == AccountOf(entry.transactions[i])
                        IN w # "" =>
                               firstSeen'[w] =
                                   EarlierDay(firstSeen, w, ToDay(entry.close_time))
       /\ \A remote \in Snapshots :
              (/\ fetchPending /\ ~fetchPending'
               /\ EngineState' = loadRemoteStats(EngineState, remote, now, TRUE))
              => \A w \in DOMAIN remote.firstSeen :
                     firstSeen'[w] = EarlierDay(firstSeen, w, remote.firstSeen[w])]_vars

\* the getAllStats() result on screen was computed from the current state
StatsFresh ==
    stats.called /\ stats = getAllStats(EngineState, explorerMetrics, now)

CohortDays == {firstSeen[w] : w \in DOMAIN firstSeen}

\* C14: a cohort contributes to the average of horizon H (3, 7 or 30 days)
\* if and only if today minus its cohort day is at least H days; so a cohort
\* created today contributes to no horizon and a cohort created exactly 3
\* days ago contributes to the 3-day horizon only.
C14_MaturityGating ==
    \A c \in CohortDays :
        /\ \A H \in Horizons :
               c \in maturedFor(firstSeen, Today, H) <=> Today - c >= H
        /\ c = Today => \A H \in Horizons : c \notin maturedFor(firstSeen, Today, H)
        /\ Today - c = 3 =>
               {H \in Horizons : c \in maturedFor(firstSeen, Today, H)} = {3}

\* C14 witness: getCohortRetention has reported a 3-day figure and the
\* sentinel for 7 and 30 days while there are a cohort created today and a
\* cohort created exactly 3 days ago.
C14_Witness ==
    /\ StatsFresh
    /\ Today \in CohortDays /\ Today - 3 \in CohortDays
    /\ stats.retention[3].text = "%"
    /\ stats.retention[7].text = "--"
    /\ stats.retention[30].text = "--"

\* n is x rounded to the nearest integer (half up), x = num / den, den > 0
RoundsTo(num, den, n) == 2 * n * den <= 2 * num + den /\ 2 * num + den < 2 * (n + 1) * den

\* C15: for each horizon, getCohortRetention reports the sentinel ("--",
\* numeric 0) exactly when no non-empty cohort is mature for that horizon;
\* otherwise it reports (to one decimal) the arithmetic mean, over the mature
\* cohorts only, of the percentage of the cohort's wallets seen again on one
\* of the H days after the cohort day.
C15_RetentionSentinel ==
    \A H \in Horizons :
        LET r == getCohortRetention(dailyStats, ledgers, firstSeen, now)[H]
            mature == {c \in CohortDays : Today - c >= H}
            sets == dayWalletSets(dailyStats, ledgers)
            size(c) == Cardinality({w \in DOMAIN firstSeen : firstSeen[w] = c})
            back(c) == Cardinality({w \in DOMAIN firstSeen :
                           /\ firstSeen[w] = c
                           /\ \E d \in DOMAIN sets :
                                  d > c /\ d <= c + H /\ w \in sets[d]})
            \* the percentages summed over the common denominator 12 (a cohort
            \* has 1 to 4 wallets), as tenths of a percent
            sorted == SortedDays(mature)
            sum12 == SumSeq([i \in 1..Len(sorted) |->
                                (back(sorted[i]) * 100 * 12) \div size(sorted[i])])
        IN /\ (r.text = "--") <=> (mature = {})
           /\ mature = {} => r.numeric = 0
           /\ mature # {} =>
                  /\ \A c \in mature : size(c) <= 4
                  /\ RoundsTo(10 * sum12, 12 * Cardinality(mature), r.numeric)

\* C15 witness: with three cohorts mature for 3 days and one that is not,
\* the 3-day figure on screen is 33.3% (one of three cohorts returned; a
\* fourth counted as 0% would give 25.0%), and the 30-day figure is "--".
C15_Witness ==
    /\ StatsFresh
    /\ Cardinality({c \in CohortDays : Today - c >= 3}) = 3
    /\ Cardinality(CohortDays) = 4
    /\ stats.retention[3] = [text |-> "%", numeric |-> 333]
    /\ stats.retention[30].text = "--"

\* C16: when no explorer value is supplied, getTPS returns (sum of txnCount
\* over the stored interval samples) / (sum of their intervals), and 0
\* whenever fewer than 2 samples are stored or the summed interval is not
\* positive; samples (4 s, 20 tx) and (5 s, 30 tx) give 50/9.
C16_ThroughputFallback ==
    LET r == getTPS(NoExplorer, recentTxnTimes)
        n == Len(recentTxnTimes)
        txns == SumSeq([i \in 1..n |-> recentTxnTimes[i].txnCount])
        time == SumSeq([i \in 1..n |-> recentTxnTimes[i].interval])
    IN /\ r.den > 0
       /\ IF n < 2 \/ time <= 0 THEN r.num = 0
          ELSE r.num * time = txns * r.den
       /\ getTPS(NoExplorer, <<[interval |-> 4, txnCount |-> 20],
                               [interval |-> 5, txnCount |-> 30]>>) = Ratio(50, 9)

\* C16 witness: the figure on screen is the fallback computed from two
\* stored samples with a positive summed interval, and it is not 0.
C16_Witness ==
    /\ StatsFresh
    /\ ~explorerMetrics.present
    /\ Len(recentTxnTimes) >= 2
    /\ SumIntervals(recentTxnTimes) > 0
    /\ stats.tps.num > 0

\* the stored ledgers that close in the closed interval [t - window, t]
InWindow(t, window) ==
    {i \in 1..Len(ledgers) :
        ledgers[i].close_time >= t - window /\ ledgers[i].close_time <= t}

\* the transactions of the ledgers of InWindow, in storage order
RECURSIVE WindowTransactions(_, _, _)
WindowTransactions(i, t, window) ==
    IF i > Len(ledgers) THEN <<>>
    ELSE (IF i \in InWindow(t, window) THEN ledgers[i].transactions ELSE <<>>)
         \o WindowTransactions(i + 1, t, window)

\* C17: when no explorer value is supplied, getAvgFee returns the arithmetic
\* mean of the fee of all transactions in ledgers of the trailing 24-hour
\* window [now - 24 h, now] (a hash-only transaction counting with fee 0),
\* and 0 when that window holds no transaction.
C17_AverageFeeFallback ==
    LET r == getAvgFee(NoExplorer, ledgers, now)
        txns == WindowTransactions(1, now, DAY_S)
        fees == SumSeq([i \in 1..Len(txns) |->
                           IF "fee" \in DOMAIN txns[i] THEN txns[i].fee ELSE 0])
    IN /\ r.den > 0
       /\ IF Len(txns) = 0 THEN r.num = 0
          ELSE r.num * Len(txns) = fees * r.den

\* C18: getPeakHour returns the UTC hour whose summed txn_count over the
\* ledgers of the trailing 24 hours [now - 24 h, now] is maximal, each
\* ledger counted in the hour of its close time; among hours with equal
\* maximal sums the lowest; and "--" exactly when every hour sums to zero.
C18_PeakHour ==
    LET r == getPeakHour(ledgers, now)
        sum(h) == SumSeq([i \in 1..Len(ledgers) |->
                             IF i \in InWindow(now, DAY_S)
                                /\ (ledgers[i].close_time % DAY_S) \div 3600 = h
                             THEN ledgers[i].txn_count ELSE 0])
    IN /\ (r.text = "--") <=> (\A h \in 0..23 : sum(h) = 0)
       /\ r.text # "--" =>
              \E p \in 0..23 :
                  /\ r.hh = <<p \div 10, p % 10>>
                  /\ \A h \in 0..23 : sum(h) <= sum(p)
                  /\ \A h \in 0..(p - 1) : sum(h) < sum(p)

\* C19: getAllTransactions(windowMs) returns exactly the transactions of the
\* stored ledgers whose close time lies in the closed interval
\* [now - windowMs, now]; a ledger closing later than now contributes
\* nothing (windows of 1, 7 and 30 days are the ones the engine asks for).
C19_TrailingWindow ==
    \A days \in {1, 7, 30} :
        getAllTransactions(ledgers, now, days * DAY_S)
            = WindowTransactions(1, now, days * DAY_S)

\* C20: in the series of getDailyActiveWalletsMulti, whenever every day of
\* the 7-day (30-day) window ending at an entry carries a wallet-identity
\* set, the entry's rolling figure equals the size of the union of those
\* sets, a wallet active on several days of the window being counted once.
C20_ExactRollingUnique ==
    LET series == getDailyActiveWalletsMulti(dailyStats, ledgers)
        sets == dayWalletSets(dailyStats, ledgers)
        dates == {series[k].date : k \in 1..Len(series)}
        window(d, n) == {e \in dates : e > d - n /\ e <= d}
        unique(d, n) == Cardinality(UNION {sets[e] : e \in window(d, n)})
    IN \A i \in 1..Len(series) :
           LET d == series[i].date
           IN /\ window(d, 7) \subseteq DOMAIN sets => series[i].day7 = unique(d, 7)
              /\ window(d, 30) \subseteq DOMAIN sets => series[i].day30 = unique(d, 30)

\* the in-memory part of the engine state
Memory(E) ==
    <<E.ledgers, E.recentTxnTimes, E.lastLedgerTime, E.firstSeen, E.dailyStats>>

\* C21: processLedger on a raw ledger that has neither ledger_index nor
\* seqNum changes no engine state (ledgers, recentTxnTimes, lastLedgerTime,
\* firstSeen, dailyStats) and writes nothing to storage.
C21_RejectWithoutSequence ==
    \A L \in RawLedgers :
        (L.ledger_index = Undef /\ L.seqNum = Undef)
        => processLedger(EngineState, L, now, TRUE, TRUE) = EngineState

\* C21 witness: every delivery of the run was rejected; since a ledger with
\* a sequence is always accepted by an empty store, each of them was the
\* ledger without a sequence, and neither memory nor storage was touched.
C21_Witness ==
    /\ deliveries = MaxDeliveries
    /\ Memory(EngineState) = <<<<>>, <<>>, 0, EmptyMap, EmptyMap>>
    /\ ~lsCache.present /\ ~lsDaily.present

\* the stored list keeps the raw list's length and order
SameLengthAndOrder(raw, e) ==
    /\ Len(e.transactions) = Len(raw)
    /\ e.txn_count = Len(raw)
    /\ \A i \in 1..Len(raw) : e.transactions[i].hash = raw[i].hash

\* a stored transaction carries every field, each at its empty/default value
AllDefaults(tx) ==
    /\ {"type", "account", "destination", "fee"} \subseteq DOMAIN tx
    /\ tx.type \in {"", "Unknown"}
    /\ tx.account = ""
    /\ tx.destination = ""
    /\ tx.fee = 0

\* C22: the transactions stored for an accepted ledger have the length and
\* order of the raw list, txn_count is that length, and a transaction given
\* as a bare hash string is stored with its hash and with every other field
\* at its empty/default value (type, account, destination empty or
\* 'Unknown', fee 0).
C22_NoTransactionDropped ==
    \A L \in StatsLedgers :
        accepts(EngineState, L)
        => LET e == ledgerEntry(L, now)
           IN /\ SameLengthAndOrder(L.transactions, e)
              /\ \A i \in 1..Len(L.transactions) :
                    L.transactions[i].wrap = "string"
                    => AllDefaults(e.transactions[i])

\* C24: when the fetch fails (network error, non-OK response, document
\* without days), loadRemoteStats leaves the engine in the state that
\* merging a snapshot with no days and no firstSeen would produce, i.e.
\* persisted and live data are still reconciled.
C24_FailureEqualsNoRemoteData ==
    fetchPending
    => \A why \in FetchFailures :
          Memory(loadRemoteFailed(EngineState, why))
          = Memory(loadRemoteStats(EngineState, NoRemoteData, now, TRUE))

\* C29: when loadRemoteStats completes after processLedger calls made while
\* its fetch was pending, the merge uses the Session Store as it is at
\* completion: afterwards every retained day that has live ledgers has a
\* dailyStats txCount of at least the sum of txn_count of the ledgers stored
\* for that day.
C29_LateRemoteCompletion ==
    fetchPending
    => \A remote \in Snapshots :
          LET after == loadRemoteStats(EngineState, remote, now, TRUE)
          IN \A d \in DOMAIN after.dailyStats \cap DOMAIN LiveRollups :
                after.dailyStats[d].txCount >= LiveRollups[d].txCount

\* C29 witness: the snapshot holding rC has been merged and written while no
\* cache write ever happened, and a day's entry is the rollup of the live
\* ledgers, which no snapshot contains: the merge saw ledgers that were
\* ingested without a save.
C29_Witness ==
    /\ ~fetchPending
    /\ ~lsCache.present
    /\ lsDaily.present /\ lsDaily.days = dailyStats
    /\ "rC" \in DOMAIN firstSeen
    /\ \E d \in DOMAIN dailyStats \cap DOMAIN LiveRollups :
          /\ dailyStats[d] = LiveRollups[d]
          /\ \A remote \in Snapshots :
                d \in DOMAIN remote.days => remote.days[d] # dailyStats[d]

\* the step accepts a ledger: processLedger went past its early returns
AcceptStep ==
    /\ deliveries' = deliveries + 1
    /\ \E L \in RawLedgers :
          /\ accepts(EngineState, L)
          /\ Memory(EngineState') = Memory(processLedger(EngineState, L, now, TRUE, TRUE))

\* the ledger accepted last triggered the periodic save: the store's length
\* only changes in processLedger, so it still is the length tested then
LastAcceptSaved == Len(ledgers) > 0 /\ Len(ledgers) % SAVE_EVERY = 0

\* C30: the cache is written once every SAVE_EVERY (10) newly accepted
\* ledgers; no two consecutively accepted ledgers both trigger a save, also
\* once the store has reached MAX_LEDGERS.
C30_SaveCadence ==
    [][(AcceptStep /\ LastAcceptSaved) => ~LastAcceptSaved']_vars

\* C23: if a storage write throws during the save that processLedger
\* triggers (saveCache or saveDailyStats), the call ends as the successful
\* one does: the in-memory state is the same, the ledger just ingested is in
\* the store, and the next processLedger call is accepted or rejected, and
\* acts, as if the write had succeeded.
C23_PersistenceFailuresSwallowed ==
    \A L \in StreamLedgers(deliveries + 1) : \A okC \in BOOLEAN, okD \in BOOLEAN :
        LET failed == processLedger(EngineState, L, now, okC, okD)
            saved == processLedger(EngineState, L, now, TRUE, TRUE)
        IN /\ Memory(failed) = Memory(saved)
           /\ accepts(EngineState, L)
              => \E i \in 1..Len(failed.ledgers) :
                    failed.ledgers[i] = ledgerEntry(L, now)
           /\ \A L2 \in StreamLedgers(deliveries + 2) :
                 /\ accepts(failed, L2) = accepts(saved, L2)
                 /\ Memory(processLedger(failed, L2, now, TRUE, TRUE))
                    = Memory(processLedger(saved, L2, now, TRUE, TRUE))

\* C23 witness: a periodic save ran (dailyStats was merged in memory) with
\* both writes throwing (nothing is in storage), and a ledger delivered after
\* it is in the store.
C23_Witness ==
    /\ ~lsCache.present /\ ~lsDaily.present
    /\ dailyStats # EmptyMap
    /\ Len(ledgers) > 0
    /\ ledgers[Len(ledgers)].seq > SAVE_EVERY
    /\ ledgers[Len(ledgers)].seq \notin
          {ledgers[i].seq : i \in 1..Len(ledgers) - 1}

\* the sample processLedger takes for an entry: seconds since the previous
\* accepted ledger, and the entry's transaction count
SampleOf(e) == [interval |-> e.close_time - lastLedgerTime, txnCount |-> e.txn_count]

\* C28: recentTxnTimes holds at most SAMPLE_CAP (10) samples: every accepted
\* ledger other than the very first appends its sample at the end, and the
\* oldest sample is dropped when the window is full, so the window is the
\* samples of the most recently accepted ledgers in acceptance order.
C28_IntervalSampleWindow ==
    [][\A L \in StreamLedgers(deliveries + 1) :
          (deliveries' = deliveries + 1
           /\ Memory(EngineState') = Memory(processLedger(EngineState, L, now, TRUE, TRUE)))
          => /\ Len(recentTxnTimes') <= SAMPLE_CAP
             /\ recentTxnTimes' =
                   IF ~accepts(EngineState, L) \/ lastLedgerTime = 0
                   THEN recentTxnTimes
                   ELSE LastN(Append(recentTxnTimes, SampleOf(ledgerEntry(L, now))),
                              SAMPLE_CAP)]_vars

\* C28 witness: the window is full and the time it spans starts after the
\* close of ledger 1, which is always the first ledger accepted: the sample
\* of the second accepted ledger, measured from ledger 1, has been dropped.
C28_Witness ==
    /\ Len(recentTxnTimes) = SAMPLE_CAP
    /\ lastLedgerTime - SumIntervals(recentTxnTimes) > CloseOf(1) + RIPPLE_EPOCH

\* membership set of day d: the identities persisted for d, united with the
\* accounts of the live ledgers closed on d
Members(d) ==
    (IF d \in DOMAIN dailyStats THEN SeqToSet(dailyStats[d].walletAddresses) ELSE {})
    \cup ({AccountOf(ledgers[i].transactions[j]) :
              <<i, j>> \in {p \in (1..Len(ledgers)) \X (1..3) :
                               /\ ToDay(ledgers[p[1]].close_time) = d
                               /\ p[2] <= Len(ledgers[p[1]].transactions)}}
          \ {""})

\* the days some wallet is known to have been active on
MemberDays ==
    DOMAIN dailyStats \cup {ToDay(ledgers[i].close_time) : i \in 1..Len(ledgers)}

\* C27: for a mature cohort (day c, horizon H) a wallet counts as returned
\* iff it is in the membership set of at least one day d with c < d <= c + H;
\* membership on day c itself or after c + H never counts, and a wallet is
\* counted at most once.
C27_RetentionWindow ==
    \A H \in Horizons : \A c \in maturedFor(firstSeen, Today, H) :
        returned(dayWalletSets(dailyStats, ledgers), cohorts(firstSeen)[c], c, H)
        = Cardinality({w \in DOMAIN firstSeen :
                          /\ firstSeen[w] = c
                          /\ \E d \in MemberDays :
                                c < d /\ d <= c + H /\ w \in Members(d)})

\* C27 witness: retention has been computed with a cohort mature for 3 days
\* that holds a wallet active on the cohort day only (not counted), and one
\* holding a wallet that is active on two days of its window (counted once)
\* or active only after its 3-day window (counted for 7 days, not for 3).
C27_Witness ==
    /\ StatsFresh
    /\ \E c \in maturedFor(firstSeen, Today, days3) : \E w \in cohorts(firstSeen)[c] :
          /\ w \in Members(c)
          /\ \A d \in MemberDays : (c < d /\ d <= c + days3) => w \notin Members(d)
    /\ \E c \in maturedFor(firstSeen, Today, days3) : \E w \in cohorts(firstSeen)[c] :
          \/ Cardinality({d \in MemberDays :
                             c < d /\ d <= c + days3 /\ w \in Members(d)}) >= 2
          \/ /\ \E d \in MemberDays : d > c + days3 /\ w \in Members(d)
             /\ \A d \in MemberDays : (c < d /\ d <= c + days3) => w \notin Members(d)

\* C26: reconnectDelay always lies in [2000, 30000] ms; between two
\* successful connections the delays used for consecutive reconnect attempts
\* are non-decreasing, each 1.5 times the previous one, capped at 30000; and
\* immediately after any successful open reconnectDelay is 2000.
C26_ReconnectBackoff ==
    /\ [](Ms(2000) <= wsm.reconnectDelay /\ wsm.reconnectDelay <= Ms(30000))
    /\ [][/\ (wsm.ws = "connecting" /\ wsm'.ws = "open")
             => wsm'.reconnectDelay = Ms(2000)
          /\ (/\ wsm.ws = "connecting" /\ wsm'.ws = "closed"
              /\ wsm'.reconnectTimer
              /\ wsm.timerDelay # 0)
             => /\ wsm'.timerDelay >= wsm.timerDelay
                /\ 2 * wsm'.timerDelay
                   = (IF 3 * wsm.timerDelay <= 2 * Ms(30000)
                      THEN 3 * wsm.timerDelay ELSE 2 * Ms(30000))]_vars

\* C26 witness: a connection has been opened after the backoff had reached
\* the cap: the last reconnect attempt was armed with 30000 ms, and the
\* delay is back at 2000 ms.
C26_Witness ==
    /\ wsm.ws = "open"
    /\ wsm.timerDelay = Ms(30000)
    /\ wsm.reconnectDelay = Ms(2000)

\* the promise of request id has been settled by a resolve or reject call
Settled(id) == Len(wsm.settled[id]) = 1

\* C25: every promise returned by sendRequest on an open socket is settled
\* exactly once: resolved by the first incoming message carrying its id if
\* that arrives before the 15 s timer fires, otherwise rejected when it
\* fires; request ids are never reused (also across reconnects); and a
\* response that arrives after its request timed out settles nothing and is
\* not delivered to the ledger callback.
C25_RequestCorrelation ==
    /\ [](\A id \in 1..MaxRequests :
            /\ Len(wsm.settled[id]) <= 1
            /\ id \in wsm.pendingRequests
               => /\ id <= wsm.requestId
                  /\ id \in wsm.timeouts
                  /\ wsm.settled[id] = <<>>
            /\ id > wsm.requestId => wsm.settled[id] = <<>>
            /\ (id <= wsm.requestId /\ id \notin wsm.pendingRequests)
               => \A m \in IncomingMessages(wsm) :
                     m.id = id
                     => /\ onmessage(wsm, m).settled = wsm.settled
                        /\ onmessage(wsm, m).delivered = wsm.delivered
                        /\ onmessage(wsm, m).requestId = wsm.requestId)
    /\ [][/\ wsm'.requestId >= wsm.requestId
          /\ wsm'.pendingRequests \ wsm.pendingRequests
             = (wsm.requestId + 1)..wsm'.requestId
          /\ \A id \in 1..MaxRequests :
                wsm'.settled[id] # wsm.settled[id]
                => /\ id \in wsm.pendingRequests /\ id \in wsm.timeouts
                   /\ wsm'.settled[id] = <<"resolved">>
                      => wsm'.received = wsm.received + 1
                   /\ wsm'.settled[id] = <<"rejected">>
                      => id \notin wsm'.timeouts]_vars
    /\ \A id \in 1..MaxRequests : [](id <= wsm.requestId => <>Settled(id))

\* C25 witness: after a reconnect (ids 3 and 4 are those of the second
\* open), request 3 has timed out and request 4 is still waiting, and a
\* message has been handled on the new connection without any request being
\* issued for it: it was a response to an earlier request, or to request 3
\* after its timeout, and it settled nothing.
C25_Witness ==
    /\ wsm.requestId = 4
    /\ wsm.settled[1] = <<"resolved">>
    /\ wsm.settled[2] = <<"rejected">>
    /\ wsm.settled[3] = <<"rejected">>
    /\ 4 \in wsm.pendingRequests
    /\ wsm.received = 2
    /\ wsm.delivered = {1}

\* the store is full and L's sequence is below every retained sequence
EvictedAtOnce(L) ==
    /\ accepts(EngineState, L)
    /\ Len(ledgers) = MAX_LEDGERS
    /\ \A i \in 1..Len(ledgers) : parseInt(rawSeq(L)) < ledgers[i].seq

\* C32: ingesting a ledger that is evicted in the same call (full store,
\* sequence lower than every retained one) leaves the engine state unchanged:
\* no interval sample, lastLedgerTime unchanged, no firstSeen entry, no
\* persistence write.
C32_EvictedLedgerNoEffect ==
    \A L \in RawLedgers :
        EvictedAtOnce(L)
        => processLedger(EngineState, L, now, TRUE, TRUE) = EngineState

\* C33: after any sequence of processLedger calls, in any arrival order,
\* every stored interval sample is >= 0 and the ledger interval computed from
\* the samples (no authoritative value) is >= 0.
C33_IntervalsNonNegative ==
    /\ \A i \in 1..Len(recentTxnTimes) : recentTxnTimes[i].interval >= 0
    /\ getLedgerInterval(NoExplorer, recentTxnTimes).num >= 0

\* C34: in every reachable engine state, also right after init() restored
\* the ledgers from the persisted cache, every non-empty account of every
\* transaction in the Session Store has an entry in firstSeen.
C34_FirstSeenCoverage ==
    StoredAccounts \subseteq DOMAIN firstSeen

\* sum of the day counts of the entries dated within the n calendar days
\* that end at d
CalendarSum(counts, d, n) ==
    LET within == SortedDays({e \in DOMAIN counts : d - n < e /\ e <= d})
    IN SumSeq([k \in 1..Len(within) |-> counts[within[k]]])

\* C35: for each entry of getDailyActiveWalletsMulti at date D, the 7-day
\* figure aggregates only days within the 7 calendar days ending at D and the
\* 30-day figure only days within the 30 calendar days ending at D, also
\* when the rollup table has gaps.
C35_CalendarWindows ==
    LET series == getDailyActiveWalletsMulti(dailyStats, ledgers)
        counts == dayCounts(dailyStats, ledgers)
    IN \A i \in 1..Len(series) :
          LET e == series[i]
          IN /\ e.day7 = Max(e.day1, CalendarSum(counts, e.date, 7))
             /\ e.day30 = Max(e.day7, CalendarSum(counts, e.date, 30))

\* the indexes of ENDPOINTS
EndpointIndexes == 0..(Len(ENDPOINTS) - 1)

\* from some point on every connection errors or closes without opening,
\* again and again
KeepsFailing == <>[](wsm.ws # "open") /\ []<>(wsm.ws = "closed")

\* C36: if the currently selected endpoint keeps failing (every connection
\* to it errors or closes without opening), the manager eventually attempts a
\* connection to a different entry of ENDPOINTS: while connections keep
\* failing the manager does not stay on one entry for ever, it selects
\* another one (the one the next connect() hands to the constructor) again
\* and again.
C36_EndpointFailover ==
    \A e \in EndpointIndexes :
        KeepsFailing => []<>(wsm.currentEndpoint # e)

\* C37: in every reachable state at most one reconnect timer is pending, and
\* connect() never creates a socket while the current one is OPEN or
\* CONNECTING: the manager never has two sockets that are not CLOSED, for any
\* interleaving of connect calls, open, error, close and timer events.
C37_SingleConnectionAttempt ==
    /\ wsm.timers <= 1
    /\ wsm.sockets <= 1
    /\ wsm.reconnectTimer <=> wsm.timers = 1
    /\ socketInUse(wsm) => wsm.sockets = 1

\* C37 witness: connect() was called while a reconnect timer was pending and
\* the socket it created has opened: the timer will find the socket in use,
\* and a close will find the timer pending.
C37_Witness ==
    /\ wsm.ws = "open"
    /\ wsm.timers = 1
    /\ wsm.timerDelay > Ms(BASE_DELAY)
\* ------------------------------------------- the earlier engine's retention
\* the accounts of a list of normalized transactions, in order
TxAccounts(txs) == [i \in 1..Len(txs) |-> AccountOf(txs[i])]

\* getActiveWallets(days): distinct non-empty accounts of the transactions of
\* the ledgers closed within the last `days` days
getActiveWallets(ls, days, t) ==
    Len(Distinct(TxAccounts(getAllTransactions(ls, t, days * DAY_S))))

\* getRetentionData() of the earlier engine: day1 from the live ledgers, day7
\* and day30 from the last 7 and 30 entries of dailyStats when it holds at
\* least two days, else 0
getRetentionData(ds, ls, t) ==
    LET day1 == getActiveWallets(ls, 1, t)
        sortedDates == SortedDays(DOMAIN ds)
        last7 == LastN(sortedDates, ROLL7)
        last30 == LastN(sortedDates, ROLL30)
        sum7 == SumSeq([k \in 1..Len(last7) |-> ds[last7[k]].activeWallets])
        sum30 == SumSeq([k \in 1..Len(last30) |-> ds[last30[k]].activeWallets])
        day7 == IF Len(sortedDates) >= 2 THEN Max(day1, sum7) ELSE 0
        day30 == IF Len(sortedDates) >= 2 THEN Max(day7, sum30) ELSE 0
    IN [day1 |-> day1, day7 |-> day7, day30 |-> day30]

\* C31: getRetentionData always returns day30 >= day7 >= day1, for every
\* content of the Session Store and every number of days held in dailyStats
\* (including zero or one day).
C31_MonotonicRetention ==
    LET r == getRetentionData(dailyStats, ledgers, now)
    IN r.day30 >= r.day7 /\ r.day7 >= r.day1
\* today's record of the snapshot document
TodayRecord(file) == file.days[ToDay(now)]

\* record b holds everything record a holds
KeepsRecord(a, b) ==
    /\ b.txCount >= a.txCount
    /\ b.activeWallets >= a.activeWallets
    /\ SeqToSet(a.walletAddresses) \subseteq SeqToSet(b.walletAddresses)

\* C38: when the collector's WebSocket collection fails, the record already
\* stored for today in the snapshot document (txCount, activeWallets,
\* walletAddresses) is not reduced or erased by that run; across runs on the
\* same day the snapshot's txCount for today never decreases.
C38_CollectorKeepsKnownData ==
    /\ [](ToDay(now) \in DOMAIN dataFile.days
            => \A ex \in ExplorerOutcomes, vhs \in VhsOutcomes :
                  LET after == main(dataFile, WsCollectionFailed, ex, vhs, now)
                  IN /\ ToDay(now) \in DOMAIN after.days
                     /\ KeepsRecord(TodayRecord(dataFile), TodayRecord(after)))
    /\ [][(now' = now /\ ToDay(now) \in DOMAIN dataFile.days)
            => /\ ToDay(now) \in DOMAIN dataFile'.days
               /\ TodayRecord(dataFile').txCount >= TodayRecord(dataFile).txCount]_vars
====
